---- MODULE Spec2Model ----
(***************************************************************************)
(* Model of the Camoufox REST server of actionbook-rs:                     *)
(*   python/camoufox-server/browser.py  (CamofoxBrowserManager, TabState)  *)
(*   python/camoufox-server/main.py     (the HTTP handlers)                *)
(*                                                                         *)
(* The server runs on one asyncio event loop: a handler runs without       *)
(* interruption from one `await` to the next, so every action below is the *)
(* code between two consecutive awaits of one handler.                     *)
(***************************************************************************)
EXTENDS Integers, Sequences, FiniteSets, TLC

(***************************************************************************)
(* Bounds of the model.                                                    *)
(***************************************************************************)
\* number of concurrent request tasks
NumTasks == 2
\* number of tab identifiers uuid4() hands out
MaxTabs == 2
\* cap on a tab's ref_counter (snapshots that would pass it are not taken)
MaxRefs == 2
\* number of AsyncCamoufox contexts that are constructed
MaxLaunches == 2

Tasks == 1..NumTasks
TabIds == 1..MaxTabs
SessionKeys == {"s1", "s2"}
Urls == {"u1", "u2"}
Texts == {"hello"}

\* Python's None
None == "None"

(***************************************************************************)
(* Accessibility snapshots.  A raw node is a Python dict: a function whose *)
(* domain is the set of keys that are present.  A child may be null.       *)
(***************************************************************************)
Null == [null |-> TRUE]

Leaf(role, name) == [role |-> role, name |-> name]
Node(role, name, children) == [role |-> role, name |-> name, children |-> children]

\* node.get(key): the value, or None when the key is missing
Get(node, key) == IF key \in DOMAIN node THEN node[key] ELSE None

(***************************************************************************)
(* _is_interactive (browser.py 139-162)                                    *)
(***************************************************************************)
interactive_roles ==
    { "button", "link", "textbox", "checkbox", "radio",
      "combobox", "menuitem", "tab", "switch", "searchbox",
      "navigation", "menubar", "menu", "menuitemcheckbox",
      "menuitemradio", "option", "progressbar", "scrollbar",
      "slider", "spinbutton", "tablist", "tabpanel",
      "heading", "article", "section", "banner", "complementary",
      "contentinfo", "form", "main", "region", "search",
      "paragraph", "listitem", "img", "figure" }

\* str.lower() on the role strings the model's snapshots use
UpperRoles == [ BUTTON |-> "button", WebArea |-> "webarea", TEXT |-> "text" ]

lower(s) == IF s \in DOMAIN UpperRoles THEN UpperRoles[s] ELSE s

\* _is_interactive comparing the role as it is written
_is_interactive_exact(role) ==
    IF role = None THEN FALSE ELSE role \in interactive_roles

_is_interactive(role) ==
    IF role = None THEN FALSE ELSE lower(role) \in interactive_roles

\* truthiness of node.get("name"): a non-empty string
Truthy(v) == v # None /\ v # ""

(***************************************************************************)
(* _convert_snapshot (browser.py 108-137).  The Python function mutates    *)
(* the tab while it builds the result; here it takes the tab's counter and *)
(* element map and returns them with the result:                           *)
(*   [result, ref_counter, element_map]                                    *)
(***************************************************************************)
\* f"e{tab.ref_counter}"
RefString(counter) == "e" \o ToString(counter)

\* f'text="{name}"'
TextSelector(name) == "text=\"" \o name \o "\""

\* ConvertHead where a new entry replaces the entries of the same selector
ConvertHead_overwrite(node, counter, emap) ==
    LET base == [role |-> IF "role" \in DOMAIN node THEN node.role ELSE "generic",
                 name |-> Get(node, "name")]
        others == {r \in DOMAIN emap : emap[r] # TextSelector(node.name)}
    IN  IF Truthy(Get(node, "name")) /\ _is_interactive(Get(node, "role"))
        THEN [result      |-> base @@ [elementRef |-> RefString(counter + 1)],
              ref_counter |-> counter + 1,
              element_map |-> (RefString(counter + 1) :> TextSelector(node.name))
                              @@ [r \in others |-> emap[r]]]
        ELSE [result |-> base, ref_counter |-> counter, element_map |-> emap]

\* lines 113-127: the node itself
ConvertHead(node, counter, emap) ==
    LET base == [role |-> IF "role" \in DOMAIN node THEN node.role ELSE "generic",
                 name |-> Get(node, "name")]
    IN  IF Truthy(Get(node, "name")) /\ _is_interactive(Get(node, "role"))
        THEN [result      |-> base @@ [elementRef |-> RefString(counter + 1)],
              ref_counter |-> counter + 1,
              element_map |-> (RefString(counter + 1) :> TextSelector(node.name)) @@ emap]
        ELSE [result |-> base, ref_counter |-> counter, element_map |-> emap]

RECURSIVE _convert_snapshot(_, _, _)
RECURSIVE ConvertChildren(_, _, _, _)

\* lines 131-135: the list comprehension over node["children"], left to right,
\* null children skipped; acc is the list built so far
ConvertChildren(children, counter, emap, acc) ==
    IF children = <<>>
    THEN [result |-> acc, ref_counter |-> counter, element_map |-> emap]
    ELSE IF Head(children) = Null
         THEN ConvertChildren(Tail(children), counter, emap, acc)
         ELSE LET c == _convert_snapshot(Head(children), counter, emap)
              IN  ConvertChildren(Tail(children), c.ref_counter, c.element_map,
                                  Append(acc, c.result))

_convert_snapshot(node, counter, emap) ==
    LET head == ConvertHead(node, counter, emap)
    IN  IF "children" \in DOMAIN node /\ node.children # <<>>
        THEN LET kids == ConvertChildren(node.children, head.ref_counter,
                                         head.element_map, <<>>)
             IN  [result      |-> head.result @@ [children |-> kids.result],
                  ref_counter |-> kids.ref_counter,
                  element_map |-> kids.element_map]
        ELSE head

(***************************************************************************)
(* SnapshotResponse(tree=tree) (main.py 73, models.py 47-57): pydantic     *)
(* builds the response model from the dict _convert_snapshot returned.  A  *)
(* field is read from the key of its own name, a missing optional field is *)
(* None, and keys that name no field are ignored.                          *)
(***************************************************************************)
RECURSIVE AccessibilityNode(_)
AccessibilityNode(d) ==
    [role        |-> d.role,
     name        |-> Get(d, "name"),
     element_ref |-> Get(d, "element_ref"),
     children    |-> IF "children" \in DOMAIN d
                     THEN [i \in 1..Len(d.children) |-> AccessibilityNode(d.children[i])]
                     ELSE None]

SnapshotResponse(tree) == [tree |-> AccessibilityNode(tree)]

(***************************************************************************)
(* The accessibility trees the modelled pages can show.                    *)
(***************************************************************************)
Snapshots ==
    { \* depth three, two interactive nodes: pre-order differs from level order
      Node("WebArea", "Page",
           << Node("generic", "", << Leaf("BUTTON", "B") >>),
              Leaf("link", "A") >>),
      \* nothing that is both interactive and named; null and empty children
      Node("WebArea", "Page",
           << [role |-> "button"], Null, Leaf("link", ""), Leaf("TEXT", "A"),
              Node("generic", "", <<>>), [name |-> "A"] >>),
      \* a root that is itself interactive, its children all null
      Node("main", "A", << Null >>),
      \* two interactive nodes of the same name
      Node("form", "", << Leaf("textbox", "A"), Leaf("button", "A") >>) }

(***************************************************************************)
(* State.                                                                  *)
(***************************************************************************)
VARIABLES
    browser,        \* manager.browser: 0 for None, else the browser handle
    camoufox_ctx,   \* manager.camoufox_ctx: 0 for None, else the context
    tabs,           \* keys of manager.tabs (tabs[id] is the TabState tab[id])
    tab,            \* the TabState objects ever constructed, by id
    session_tabs,   \* manager.session_tabs: session_key -> tab id
    lock,           \* manager._lock: 0 when unlocked, else the task holding it
    waiters,        \* manager._lock's queue of waiting tasks, first come first
    pc,             \* per request task: the await its handler is suspended at
    req,            \* per request task: the request being handled
    loc,            \* per request task: the handler's local variables
    cpc,            \* the lifespan task: the await cleanup() is suspended at
    to_close,       \* cleanup's list(self.tabs.items()) still to be closed
    exiting,        \* cleanup: the context whose __aexit__ it awaits, else 0
    launched,       \* number of AsyncCamoufox contexts constructed so far
    uuids,          \* number of uuid4() values handed out so far
    running,        \* browser handles whose browser process is running
    page_open,      \* the pages that are open in their browser
    response        \* what the step just taken returned to its caller

registry == << browser, camoufox_ctx, tabs, tab, session_tabs >>
engine == << launched, uuids, running, page_open >>
cleaner == << cpc, to_close, exiting >>

vars == << registry, lock, waiters, pc, req, loc, cleaner, engine, response >>

NoRequest == [op |-> "none"]
NoLocals == [tab_id |-> 0]
NoResponse == [op |-> "none"]

\* manager = CamofoxBrowserManager() in lifespan (main.py 20), __init__
\* (browser.py 26-31)
Init ==
    /\ browser = 0
    /\ camoufox_ctx = 0
    /\ tabs = {}
    /\ tab = <<>>
    /\ session_tabs = <<>>
    /\ lock = 0
    /\ waiters = <<>>
    /\ pc = [p \in Tasks |-> "idle"]
    /\ req = [p \in Tasks |-> NoRequest]
    /\ loc = [p \in Tasks |-> NoLocals]
    /\ cpc = "idle"
    /\ to_close = <<>>
    /\ exiting = 0
    /\ launched = 0
    /\ uuids = 0
    /\ running = {}
    /\ page_open = {}
    /\ response = NoResponse

\* TabState.__init__ (browser.py 15-20)
TabState(id, page, url) ==
    [id |-> id, page |-> page, url |-> url, element_map |-> <<>>, ref_counter |-> 0]

\* raise HTTPException(status_code, detail), as the handler of main.py passes it on
HTTPException(p, status_code, detail) ==
    [op |-> req[p].op, status |-> status_code, detail |-> detail]

\* any other exception: the handler of main.py turns it into a 500
ServerError(p, detail) == HTTPException(p, 500, detail)

\* a handler's return value, sent with status 200
Ok(p, body) == [op |-> req[p].op, status |-> 200, body |-> body]

\* the handler of task p ends with response r
Return(p, r) ==
    /\ pc' = [pc EXCEPT ![p] = "idle"]
    /\ req' = [req EXCEPT ![p] = NoRequest]
    /\ loc' = [loc EXCEPT ![p] = NoLocals]
    /\ response' = r

\* the handler of task p suspends at await `at`
Await(p, at) ==
    /\ pc' = [pc EXCEPT ![p] = at]
    /\ response' = NoResponse

\* the page can still act: it is open and its browser runs
PageAlive(page) == page \in page_open /\ page.browser \in running

\* the awaits a handler is suspended at while it holds a TabState
TabAwaits == {"snapshot", "click", "type_text", "screenshot", "navigate"}

\* the TabState objects the tasks other than p hold
Held(p) == {req[q].tab_id : q \in {q \in Tasks \ {p} : pc[q] \in TabAwaits}}

\* Python frees a TabState that neither manager.tabs nor a handler refers to:
\* heap h with only the objects of `keep` left
Collect(h, keep) == [t \in DOMAIN h \cap keep |-> h[t]]

\* the handler of task p, which held a TabState, ends with response r
\* leaving the TabState objects as h
ReturnTab(p, h, r) ==
    /\ tab' = Collect(h, tabs \cup Held(p))
    /\ Return(p, r)

(***************************************************************************)
(* manager._lock (asyncio.Lock, browser.py 31 and 56).  acquire() takes a  *)
(* free lock that nobody waits for without suspending; otherwise the       *)
(* caller queues.  release() hands the lock to the first waiter.           *)
(***************************************************************************)
Release ==
    IF waiters = <<>>
    THEN lock' = 0 /\ waiters' = waiters
    ELSE lock' = Head(waiters) /\ waiters' = Tail(waiters)

\* create_tab handlers that have still to pass _ensure_browser / uuid4()
Queued == Cardinality({q \in Tasks : pc[q] = "lock"})
Launching == Cardinality({q \in Tasks : pc[q] = "launch"})

(***************************************************************************)
(* _ensure_browser (browser.py 33-52) up to its await, and, when the       *)
(* browser exists, create_tab lines 59-60 up to `await new_page()`.        *)
(* Task p holds the lock.                                                  *)
(***************************************************************************)
_ensure_browser(p) ==
    IF browser = 0
    THEN /\ camoufox_ctx' = launched + 1
         /\ launched' = launched + 1
         /\ loc' = [loc EXCEPT ![p] = [tab_id |-> 0, ctx |-> launched + 1]]
         /\ Await(p, "launch")
         /\ UNCHANGED << browser, uuids >>
    ELSE /\ uuids' = uuids + 1
         /\ loc' = [loc EXCEPT ![p] = [tab_id |-> uuids + 1,
                                       page |-> [id |-> uuids + 1, browser |-> browser]]]
         /\ Await(p, "new_page")
         /\ UNCHANGED << browser, camoufox_ctx, launched >>

\* the bounds of the model leave room for one more create_tab: a context to
\* construct if it finds no browser, and a tab identifier
WithinBounds ==
    /\ uuids + Queued + Launching < MaxTabs
    /\ \/ launched + Queued < MaxLaunches
       \/ lock = 0 /\ waiters = <<>> /\ browser # 0

\* create_tab that enters _ensure_browser without taking the lock
create_tab_unlocked(p, session_key, url) ==
    /\ pc[p] = "idle"
    /\ WithinBounds
    /\ req' = [req EXCEPT ![p] = [op |-> "create_tab", session_key |-> session_key,
                                  url |-> url]]
    /\ _ensure_browser(p)
    /\ UNCHANGED << tabs, tab, session_tabs, lock, waiters, cleaner, running, page_open >>

\* POST /tabs (main.py 56-65) -> create_tab (browser.py 54-57): async with _lock
create_tab(p, session_key, url) ==
    /\ pc[p] = "idle"
    /\ WithinBounds
    /\ req' = [req EXCEPT ![p] = [op |-> "create_tab", session_key |-> session_key,
                                  url |-> url]]
    /\ IF lock = 0 /\ waiters = <<>>
       THEN /\ lock' = p
            /\ waiters' = waiters
            /\ _ensure_browser(p)
       ELSE /\ waiters' = Append(waiters, p)
            /\ Await(p, "lock")
            /\ UNCHANGED << lock, loc, browser, camoufox_ctx, launched, uuids >>
    /\ UNCHANGED << tabs, tab, session_tabs, cleaner, running, page_open >>

\* a waiter is handed the lock and goes on into _ensure_browser
create_tab_locked(p) ==
    /\ pc[p] = "lock"
    /\ lock = p
    /\ _ensure_browser(p)
    /\ UNCHANGED << tabs, tab, session_tabs, lock, waiters, req, cleaner,
                    running, page_open >>

\* `self.browser = await self.camoufox_ctx.__aenter__()` returns (line 48),
\* then lines 59-60 up to `await self.browser.new_page()`
launch_done(p) ==
    /\ pc[p] = "launch"
    /\ browser' = loc[p].ctx
    /\ running' = running \cup {loc[p].ctx}
    /\ uuids' = uuids + 1
    /\ loc' = [loc EXCEPT ![p] = [tab_id |-> uuids + 1,
                                  page |-> [id |-> uuids + 1, browser |-> loc[p].ctx]]]
    /\ Await(p, "new_page")
    /\ UNCHANGED << camoufox_ctx, tabs, tab, session_tabs, lock, waiters, req, cleaner, launched, page_open >>

\* __aenter__ raises: the lock is released, main.py answers 500
launch_failed(p) ==
    /\ pc[p] = "launch"
    /\ Release
    /\ Return(p, ServerError(p, [error |-> "Failed to create tab"]))
    /\ UNCHANGED << registry, cleaner, engine >>

\* `page = await self.browser.new_page()` returns (line 60), then line 64 up
\* to `await page.goto(...)`
new_page_done(p) ==
    /\ pc[p] = "new_page"
    /\ loc[p].page.browser \in running
    /\ page_open' = page_open \cup {loc[p].page}
    /\ Await(p, "goto")
    /\ UNCHANGED << registry, lock, waiters, req, loc, cleaner, launched,
                    uuids, running >>

\* new_page_failed leaving create_tab without releasing the lock
new_page_failed_keep_lock(p) ==
    /\ pc[p] = "new_page"
    /\ Return(p, ServerError(p, [error |-> "Failed to create tab"]))
    /\ UNCHANGED << registry, lock, waiters, cleaner, engine >>

\* new_page() raises: the lock is released, main.py answers 500
new_page_failed(p) ==
    /\ pc[p] = "new_page"
    /\ Release
    /\ Return(p, ServerError(p, [error |-> "Failed to create tab"]))
    /\ UNCHANGED << registry, cleaner, engine >>

\* create_tab_done with the session's first tab kept as its active tab
create_tab_done_first(p) ==
    /\ pc[p] = "goto"
    /\ PageAlive(loc[p].page)
    /\ LET tab_id == loc[p].tab_id
           t == TabState(tab_id, loc[p].page, req[p].url)
       IN  /\ tab' = (tab_id :> t) @@ tab
           /\ tabs' = tabs \cup {tab_id}
           /\ session_tabs' = session_tabs @@ (req[p].session_key :> tab_id)
           /\ Return(p, Ok(p, [id |-> t.id, url |-> t.url]))
    /\ Release
    /\ UNCHANGED << browser, camoufox_ctx, cleaner, engine >>

\* page.goto returns: lines 69-74
create_tab_done(p) ==
    /\ pc[p] = "goto"
    /\ PageAlive(loc[p].page)
    /\ LET tab_id == loc[p].tab_id
           t == TabState(tab_id, loc[p].page, req[p].url)
       IN  /\ tab' = (tab_id :> t) @@ tab
           /\ tabs' = tabs \cup {tab_id}
           /\ session_tabs' = (req[p].session_key :> tab_id) @@ session_tabs
           /\ Return(p, Ok(p, [id |-> t.id, url |-> t.url]))
    /\ Release
    /\ UNCHANGED << browser, camoufox_ctx, cleaner, engine >>

\* page.goto raises: line 66 up to `await page.close()`
goto_failed(p) ==
    /\ pc[p] = "goto"
    /\ Await(p, "close")
    /\ UNCHANGED << registry, lock, waiters, req, loc, cleaner, engine >>

\* page.close() returns: line 67 raises the 500 "Navigation failed"
close_done(p) ==
    /\ pc[p] = "close"
    /\ page_open' = page_open \ {loc[p].page}
    /\ Release
    /\ Return(p, HTTPException(p, 500, [error |-> "Navigation failed"]))
    /\ UNCHANGED << registry, cleaner, launched, uuids, running >>

\* page.close() raises inside the except block: main.py answers 500
close_failed(p) ==
    /\ pc[p] = "close"
    /\ Release
    /\ Return(p, ServerError(p, [error |-> "Failed to create tab"]))
    /\ UNCHANGED << registry, cleaner, engine >>

\* get_active_tab_for_session (browser.py 87-89); 0 stands for None
get_active_tab_for_session(session_key) ==
    IF session_key \in DOMAIN session_tabs THEN session_tabs[session_key] ELSE 0

\* GET /sessions/{key}/active-tab (main.py 128-137).  The handler reads the
\* registry and changes nothing: its response is a function of the state.
get_active_tab(session_key) ==
    LET tab_id == get_active_tab_for_session(session_key)
    IN  IF tab_id = 0
        THEN [op |-> "get_active_tab", status |-> 404,
              detail |-> [error |-> "No active tab found for session",
                          session_key |-> session_key]]
        ELSE [op |-> "get_active_tab", status |-> 200, body |-> [tab_id |-> tab_id]]

\* GET /health (main.py 45-53): likewise a function of the state
health_check ==
    [op |-> "health", status |-> 200,
     body |-> [server |-> "camoufox-rest-api", status |-> "ok", version |-> "0.6.2",
               browser |-> IF browser # 0 THEN "real" ELSE "not_started"]]

(***************************************************************************)
(* Operations on one tab.  Each resolves the tab with _get_tab before its  *)
(* try block, so the 404 of _get_tab reaches the client as it is.          *)
(***************************************************************************)
\* the 404 of _get_tab listing the tabs the sessions remember
TabNotFound_sessions(p, op, tab_id) ==
    [op |-> op, status |-> 404,
     detail |-> [error |-> "Tab not found", tab_id |-> tab_id,
                 available_tabs |-> {session_tabs[k] : k \in DOMAIN session_tabs}]]

\* _get_tab (browser.py 76-85): the 404 raised for an unknown tab id
TabNotFound(p, op, tab_id) ==
    [op |-> op, status |-> 404,
     detail |-> [error |-> "Tab not found", tab_id |-> tab_id, available_tabs |-> tabs]]

\* the handler of task p starts op on tab_id: 404, or it suspends in the await
\* `at` of a call on the tab's page
TabCall(p, request, at) ==
    /\ pc[p] = "idle"
    /\ IF request.tab_id \notin tabs
       THEN /\ response' = TabNotFound(p, request.op, request.tab_id)
            /\ UNCHANGED << pc, req >>
       ELSE /\ req' = [req EXCEPT ![p] = request]
            /\ Await(p, at)
    /\ UNCHANGED << registry, lock, waiters, loc, cleaner, engine >>

\* GET /tabs/{id}/snapshot (main.py 68-77) -> get_accessibility_tree
\* (browser.py 91-97) up to `await tab.page.accessibility.snapshot()`.  The
\* request in flight to the page says which document its tree is taken of:
\* the one the page shows ("current"), or one a navigation has replaced
\* since ("previous").
get_accessibility_tree(p, tab_id) ==
    TabCall(p, [op |-> "snapshot", tab_id |-> tab_id, document |-> "current"], "snapshot")

\* snapshot_done numbering every snapshot's references from 1
snapshot_done_restart(p, snapshot) ==
    /\ pc[p] = "snapshot"
    /\ PageAlive(tab[req[p].tab_id].page)
    /\ LET t == tab[req[p].tab_id]
           c == _convert_snapshot(snapshot, 0, t.element_map)
       IN  /\ c.ref_counter <= MaxRefs
           /\ ReturnTab(p, [tab EXCEPT ![t.id].ref_counter = c.ref_counter,
                                       ![t.id].element_map = c.element_map],
                        [tree |-> c.result] @@ Ok(p, SnapshotResponse(c.result)))
    /\ UNCHANGED << browser, camoufox_ctx, tabs, session_tabs, lock, waiters, cleaner, engine >>

\* snapshot_done recording the references in a fresh map
snapshot_done_rebuild(p, snapshot) ==
    /\ pc[p] = "snapshot"
    /\ PageAlive(tab[req[p].tab_id].page)
    /\ LET t == tab[req[p].tab_id]
           c == _convert_snapshot(snapshot, t.ref_counter, << >>)
       IN  /\ c.ref_counter <= MaxRefs
           /\ ReturnTab(p, [tab EXCEPT ![t.id].ref_counter = c.ref_counter,
                                       ![t.id].element_map = c.element_map],
                        [tree |-> c.result] @@ Ok(p, SnapshotResponse(c.result)))
    /\ UNCHANGED << browser, camoufox_ctx, tabs, session_tabs, lock, waiters, cleaner, engine >>

\* the snapshot arrives: lines 98-103.  _convert_snapshot runs without
\* suspending, on the TabState the handler resolved before the await.  The
\* response carries the tree get_accessibility_tree returned to main.py
\* (tree) and the body main.py sends (body).
snapshot_done(p, snapshot) ==
    /\ pc[p] = "snapshot"
    /\ PageAlive(tab[req[p].tab_id].page)
    /\ LET t == tab[req[p].tab_id]
           c == _convert_snapshot(snapshot, t.ref_counter, t.element_map)
       IN  /\ c.ref_counter <= MaxRefs
           /\ ReturnTab(p, [tab EXCEPT ![t.id].ref_counter = c.ref_counter,
                                       ![t.id].element_map = c.element_map],
                        [tree |-> c.result] @@ Ok(p, SnapshotResponse(c.result)))
    /\ UNCHANGED << browser, camoufox_ctx, tabs, session_tabs, lock, waiters, cleaner, engine >>

\* snapshot() returns None or raises: lines 99 and 105-106
snapshot_failed(p) ==
    /\ pc[p] = "snapshot"
    /\ ReturnTab(p, tab, HTTPException(p, 500, [error |-> "Failed to get accessibility tree"]))
    /\ UNCHANGED << browser, camoufox_ctx, tabs, session_tabs, lock, waiters, cleaner,
                    engine >>

\* the 400 of click (browser.py 170-174); type_text's (187-191) lists no refs
UnknownElementRef(p, request) ==
    [op |-> request.op, status |-> 400,
     detail |-> IF request.op = "click"
                THEN [error |-> "Unknown element ref", element_ref |-> request.element_ref,
                      available_refs |-> DOMAIN tab[request.tab_id].element_map]
                ELSE [error |-> "Unknown element ref", element_ref |-> request.element_ref]]

\* ElementCall passing whatever element_map.get returned on to the page
ElementCall_unchecked(p, request) ==
    /\ pc[p] = "idle"
    /\ IF request.tab_id \notin tabs
       THEN /\ response' = TabNotFound(p, request.op, request.tab_id)
            /\ UNCHANGED << pc, req, loc >>
       ELSE /\ req' = [req EXCEPT ![p] = request]
            /\ loc' = [loc EXCEPT ![p] =
                  [tab_id |-> request.tab_id,
                   selector |-> Get(tab[request.tab_id].element_map, request.element_ref)]]
            /\ Await(p, request.op)
    /\ UNCHANGED << registry, lock, waiters, cleaner, engine >>

\* click (browser.py 164-177) and type_text (182-194) up to the await of
\* page.click / page.fill: _get_tab, then element_map.get(element_ref)
ElementCall(p, request) ==
    /\ pc[p] = "idle"
    /\ IF request.tab_id \notin tabs
       THEN /\ response' = TabNotFound(p, request.op, request.tab_id)
            /\ UNCHANGED << pc, req, loc >>
       ELSE IF request.element_ref \notin DOMAIN tab[request.tab_id].element_map
            THEN /\ response' = UnknownElementRef(p, request)
                 /\ UNCHANGED << pc, req, loc >>
            ELSE /\ req' = [req EXCEPT ![p] = request]
                 /\ loc' = [loc EXCEPT ![p] =
                       [tab_id |-> request.tab_id,
                        selector |-> tab[request.tab_id].element_map[request.element_ref]]]
                 /\ Await(p, request.op)
    /\ UNCHANGED << registry, lock, waiters, cleaner, engine >>

\* POST /tabs/{id}/click (main.py 80-89)
click(p, tab_id, element_ref) ==
    ElementCall(p, [op |-> "click", tab_id |-> tab_id, element_ref |-> element_ref])

\* POST /tabs/{id}/type (main.py 92-101)
type_text(p, tab_id, element_ref, text) ==
    ElementCall(p, [op |-> "type_text", tab_id |-> tab_id, element_ref |-> element_ref,
                    text |-> text])

\* page.click / page.fill / page.screenshot returns: {"success": True} or
\* {"data": ...}
page_action_done(p) ==
    /\ pc[p] \in {"click", "type_text", "screenshot"}
    /\ PageAlive(tab[req[p].tab_id].page)
    /\ ReturnTab(p, tab, Ok(p, IF pc[p] = "screenshot" THEN [data |-> "png"]
                               ELSE [success |-> TRUE]))
    /\ UNCHANGED << browser, camoufox_ctx, tabs, session_tabs, lock, waiters, cleaner,
                    engine >>

\* the details of the 500s of click, type_text and screenshot (browser.py
\* 180, 197, 223)
Failed == [click |-> "Click failed", type_text |-> "Type failed",
           screenshot |-> "Screenshot failed"]

\* page.click / page.fill / page.screenshot raises (or times out): 500
page_action_failed(p) ==
    /\ pc[p] \in {"click", "type_text", "screenshot"}
    /\ ReturnTab(p, tab, HTTPException(p, 500, [error |-> Failed[pc[p]]]))
    /\ UNCHANGED << browser, camoufox_ctx, tabs, session_tabs, lock, waiters, cleaner,
                    engine >>

\* GET /tabs/{id}/screenshot (main.py 116-125) -> screenshot (browser.py
\* 213-218) up to `await tab.page.screenshot(...)`
screenshot(p, tab_id) ==
    TabCall(p, [op |-> "screenshot", tab_id |-> tab_id], "screenshot")

\* POST /tabs/{id}/navigate (main.py 104-113) -> navigate (browser.py 199-204)
\* up to `await tab.page.goto(...)`
navigate(p, tab_id, url) ==
    TabCall(p, [op |-> "navigate", tab_id |-> tab_id, url |-> url], "navigate")

\* navigate_done clearing the element map but leaving the counter
navigate_done_keep_counter(p) ==
    /\ pc[p] = "navigate"
    /\ PageAlive(tab[req[p].tab_id].page)
    /\ ReturnTab(p, [tab EXCEPT ![req[p].tab_id].url = req[p].url,
                                ![req[p].tab_id].element_map = <<>>],
                 Ok(p, [success |-> TRUE]))
    /\ UNCHANGED << browser, camoufox_ctx, tabs, session_tabs, lock, waiters, cleaner, engine >>

\* navigate_done resetting the counter but leaving the element map
navigate_done_keep_map(p) ==
    /\ pc[p] = "navigate"
    /\ PageAlive(tab[req[p].tab_id].page)
    /\ ReturnTab(p, [tab EXCEPT ![req[p].tab_id].url = req[p].url,
                                ![req[p].tab_id].ref_counter = 0],
                 Ok(p, [success |-> TRUE]))
    /\ UNCHANGED << browser, camoufox_ctx, tabs, session_tabs, lock, waiters, cleaner, engine >>

\* navigate_done resetting the references of every tab
navigate_done_all_tabs(p) ==
    /\ pc[p] = "navigate"
    /\ PageAlive(tab[req[p].tab_id].page)
    /\ ReturnTab(p, [t \in DOMAIN tab |->
                       IF t = req[p].tab_id
                       THEN [tab[t] EXCEPT !.url = req[p].url, !.element_map = <<>>,
                                           !.ref_counter = 0]
                       ELSE [tab[t] EXCEPT !.element_map = <<>>, !.ref_counter = 0]],
                 Ok(p, [success |-> TRUE]))
    /\ UNCHANGED << browser, camoufox_ctx, tabs, session_tabs, lock, waiters, cleaner, engine >>

\* the tasks other than p whose snapshot of the page of tab_id is in flight
Snapshotting(p, tab_id) ==
    {q \in Tasks \ {p} : pc[q] = "snapshot" /\ req[q].tab_id = tab_id}

\* page.goto returns: lines 205-209.  The page shows a new document; of the
\* snapshots in flight to it the browser has taken some (`taken`) of the
\* document it replaced, and takes the others of the new one.
navigate_done(p) ==
    /\ pc[p] = "navigate"
    /\ PageAlive(tab[req[p].tab_id].page)
    /\ tab' = Collect([tab EXCEPT ![req[p].tab_id].url = req[p].url,
                                  ![req[p].tab_id].element_map = <<>>,
                                  ![req[p].tab_id].ref_counter = 0],
                      tabs \cup Held(p))
    /\ \E taken \in SUBSET Snapshotting(p, req[p].tab_id) :
          req' = [q \in Tasks |->
                    IF q = p THEN NoRequest
                    ELSE IF q \in taken THEN [req[q] EXCEPT !.document = "previous"]
                    ELSE req[q]]
    /\ pc' = [pc EXCEPT ![p] = "idle"]
    /\ loc' = [loc EXCEPT ![p] = NoLocals]
    /\ response' = Ok(p, [success |-> TRUE])
    /\ UNCHANGED << browser, camoufox_ctx, tabs, session_tabs, lock, waiters, cleaner, engine >>

\* navigate_failed dropping the tab's references as a successful navigate does
navigate_failed_reset(p) ==
    /\ pc[p] = "navigate"
    /\ ReturnTab(p, [tab EXCEPT ![req[p].tab_id].element_map = <<>>,
                                ![req[p].tab_id].ref_counter = 0],
                 HTTPException(p, 500, [error |-> "Navigation failed"]))
    /\ UNCHANGED << browser, camoufox_ctx, tabs, session_tabs, lock, waiters, cleaner,
                    engine >>

\* page.goto raises: lines 210-211
navigate_failed(p) ==
    /\ pc[p] = "navigate"
    /\ ReturnTab(p, tab, HTTPException(p, 500, [error |-> "Navigation failed"]))
    /\ UNCHANGED << browser, camoufox_ctx, tabs, session_tabs, lock, waiters, cleaner,
                    engine >>

(***************************************************************************)
(* cleanup (browser.py 225-247), run by the lifespan task at shutdown      *)
(* (main.py 24) and by the test scripts.                                   *)
(***************************************************************************)
RECURSIVE Sorted(_)
\* list(self.tabs.items()): the keys in insertion order, which is the order
\* the identifiers were handed out in (create_tab runs under the lock)
Sorted(S) ==
    IF S = {} THEN <<>>
    ELSE LET m == CHOOSE x \in S : \A y \in S : x <= y
         IN  << m >> \o Sorted(S \ {m})

\* lines 236-241 once every page close was attempted: tabs.clear(), then
\* up to `await self.camoufox_ctx.__aexit__(...)` if there is a context
cleanup_clear ==
    /\ tabs' = {}
    /\ tab' = Collect(tab, Held(0))
    /\ IF camoufox_ctx # 0
       THEN cpc' = "aexit" /\ exiting' = camoufox_ctx /\ response' = NoResponse
       ELSE cpc' = "idle" /\ exiting' = 0 /\ response' = [op |-> "cleanup", status |-> 200]

\* lines 227-232 up to the first `await tab.page.close()`
cleanup ==
    /\ cpc = "idle"
    /\ IF tabs = {}
       THEN cleanup_clear /\ to_close' = <<>>
       ELSE /\ to_close' = Sorted(tabs)
            /\ cpc' = "closing"
            /\ response' = NoResponse
            /\ UNCHANGED << tabs, tab, exiting >>
    /\ UNCHANGED << browser, camoufox_ctx, session_tabs, lock, waiters, pc, req,
                    loc, engine >>

\* cleanup_close where a close that raises ends the loop
cleanup_close_stop(closed) ==
    /\ cpc = "closing"
    /\ page_open' = IF closed THEN page_open \ {tab[Head(to_close)].page} ELSE page_open
    /\ to_close' = Tail(to_close)
    /\ IF Tail(to_close) = <<>> \/ ~closed
       THEN cleanup_clear
       ELSE cpc' = cpc /\ response' = NoResponse /\ UNCHANGED << tabs, tab, exiting >>
    /\ UNCHANGED << browser, camoufox_ctx, session_tabs, lock, waiters, pc, req,
                    loc, launched, uuids, running >>

\* one `await tab.page.close()` returns (closed) or raises (swallowed)
cleanup_close(closed) ==
    /\ cpc = "closing"
    /\ page_open' = IF closed THEN page_open \ {tab[Head(to_close)].page} ELSE page_open
    /\ to_close' = Tail(to_close)
    /\ IF Tail(to_close) = <<>>
       THEN cleanup_clear
       ELSE cpc' = cpc /\ response' = NoResponse /\ UNCHANGED << tabs, tab, exiting >>
    /\ UNCHANGED << browser, camoufox_ctx, session_tabs, lock, waiters, pc, req,
                    loc, launched, uuids, running >>

\* cleanup_exit that keeps the context it has exited
cleanup_exit_keep_ctx(closed) ==
    /\ cpc = "aexit"
    /\ running' = IF closed THEN running \ {exiting} ELSE running
    /\ page_open' = IF closed THEN {pg \in page_open : pg.browser # exiting}
                    ELSE page_open
    /\ browser' = 0
    /\ cpc' = "idle"
    /\ exiting' = 0
    /\ response' = [op |-> "cleanup", status |-> 200]
    /\ UNCHANGED << camoufox_ctx, tabs, tab, session_tabs, lock, waiters, pc, req, loc,
                    to_close, launched, uuids >>

\* __aexit__ returns (the browser and its pages are closed) or raises
\* (swallowed): lines 244-247
cleanup_exit(closed) ==
    /\ cpc = "aexit"
    /\ running' = IF closed THEN running \ {exiting} ELSE running
    /\ page_open' = IF closed THEN {pg \in page_open : pg.browser # exiting}
                    ELSE page_open
    /\ camoufox_ctx' = 0
    /\ browser' = 0
    /\ cpc' = "idle"
    /\ exiting' = 0
    /\ response' = [op |-> "cleanup", status |-> 200]
    /\ UNCHANGED << tabs, tab, session_tabs, lock, waiters, pc, req, loc, to_close,
                    launched, uuids >>

(***************************************************************************)
(* The requests clients send, and the specification.                       *)
(***************************************************************************)
ElementRefs == {RefString(i) : i \in 1..MaxRefs}

Next ==
    \/ \E p \in Tasks, k \in SessionKeys, u \in Urls : create_tab(p, k, u)
    \/ \E p \in Tasks : create_tab_locked(p)
    \/ \E p \in Tasks : launch_done(p)
    \/ \E p \in Tasks : launch_failed(p)
    \/ \E p \in Tasks : new_page_done(p)
    \/ \E p \in Tasks : new_page_failed(p)
    \/ \E p \in Tasks : create_tab_done(p)
    \/ \E p \in Tasks : goto_failed(p)
    \/ \E p \in Tasks : close_done(p)
    \/ \E p \in Tasks : close_failed(p)
    \/ \E p \in Tasks, t \in TabIds : get_accessibility_tree(p, t)
    \/ \E p \in Tasks, s \in Snapshots : snapshot_done(p, s)
    \/ \E p \in Tasks : snapshot_failed(p)
    \/ \E p \in Tasks, t \in TabIds, r \in ElementRefs : click(p, t, r)
    \/ \E p \in Tasks, t \in TabIds, r \in ElementRefs, x \in Texts : type_text(p, t, r, x)
    \/ \E p \in Tasks, t \in TabIds : screenshot(p, t)
    \/ \E p \in Tasks : page_action_done(p)
    \/ \E p \in Tasks : page_action_failed(p)
    \/ \E p \in Tasks, t \in TabIds, u \in Urls : navigate(p, t, u)
    \/ \E p \in Tasks : navigate_done(p)
    \/ \E p \in Tasks : navigate_failed(p)
    \/ cleanup
    \/ \E closed \in BOOLEAN : cleanup_close(closed)
    \/ \E closed \in BOOLEAN : cleanup_exit(closed)

Spec == Init /\ [][Next]_vars

(***************************************************************************)
(* Scenarios: the same server under clients that send only some of the     *)
(* requests.                                                               *)
(***************************************************************************)

\* the steps of create_tab after the call
CreateSteps ==
    \/ \E p \in Tasks : create_tab_locked(p)
    \/ \E p \in Tasks : launch_done(p)
    \/ \E p \in Tasks : launch_failed(p)
    \/ \E p \in Tasks : new_page_done(p)
    \/ \E p \in Tasks : new_page_failed(p)
    \/ \E p \in Tasks : create_tab_done(p)
    \/ \E p \in Tasks : goto_failed(p)
    \/ \E p \in Tasks : close_done(p)
    \/ \E p \in Tasks : close_failed(p)

\* Concurrent clients that open tabs (all for one URL); no shutdown.
CreateNext ==
    \/ \E p \in Tasks, k \in SessionKeys : create_tab(p, k, "u1")
    \/ CreateSteps

CreateSpec == Init /\ [][CreateNext]_vars

\* The same clients, and the lifespan task running cleanup at any moment.
SessionNext ==
    \/ CreateNext
    \/ cleanup
    \/ \E closed \in BOOLEAN : cleanup_close(closed)
    \/ \E closed \in BOOLEAN : cleanup_exit(closed)

SessionSpec == Init /\ [][SessionNext]_vars

\* One client (task 1) that sends one request at a time: it opens tabs for
\* one session, the engine opening them without failure, and works on them.
TabNext ==
    \/ create_tab(1, "s1", "u1")
    \/ launch_done(1)
    \/ new_page_done(1)
    \/ create_tab_done(1)
    \/ \E t \in TabIds : get_accessibility_tree(1, t)
    \/ \E s \in Snapshots : snapshot_done(1, s)
    \/ snapshot_failed(1)
    \/ \E t \in TabIds, r \in ElementRefs : click(1, t, r)
    \/ \E t \in TabIds, r \in ElementRefs, x \in Texts : type_text(1, t, r, x)
    \/ \E t \in TabIds : screenshot(1, t)
    \/ page_action_done(1)
    \/ page_action_failed(1)
    \/ \E t \in TabIds, u \in Urls : navigate(1, t, u)
    \/ navigate_done(1)
    \/ navigate_failed(1)

TabSpec == Init /\ [][TabNext]_vars

\* The test scripts and the lifespan: one client that sends one request at
\* a time, and cleanup run when no request is in flight.
ScriptNext ==
    \/ cpc = "idle" /\ TabNext
    \/ pc[1] = "idle" /\ cleanup
    \/ \E closed \in BOOLEAN : cleanup_close(closed)
    \/ \E closed \in BOOLEAN : cleanup_exit(closed)

ScriptSpec == Init /\ [][ScriptNext]_vars

\* Concurrent clients that share one tab: task 1 opens it, the engine
\* opening it without failure, and every client snapshots, navigates,
\* clicks and types on it at any moment; no shutdown.
SharedNext ==
    \/ tabs = {} /\ create_tab(1, "s1", "u1")
    \/ launch_done(1)
    \/ new_page_done(1)
    \/ create_tab_done(1)
    \/ \E p \in Tasks, t \in tabs : get_accessibility_tree(p, t)
    \/ \E p \in Tasks, s \in Snapshots : snapshot_done(p, s)
    \/ \E p \in Tasks : snapshot_failed(p)
    \/ \E p \in Tasks, t \in tabs, u \in Urls : navigate(p, t, u)
    \/ \E p \in Tasks : navigate_done(p)
    \/ \E p \in Tasks : navigate_failed(p)
    \/ \E p \in Tasks, t \in tabs, r \in ElementRefs : click(p, t, r)
    \/ \E p \in Tasks, t \in tabs, r \in ElementRefs, x \in Texts : type_text(p, t, r, x)
    \/ \E p \in Tasks : page_action_done(p)
    \/ \E p \in Tasks : page_action_failed(p)

SharedSpec == Init /\ [][SharedNext]_vars

(***************************************************************************)
(* Properties.                                                             *)
(***************************************************************************)

\* task p's handler of `op` returns with status `status` in this step
Returns(p, op, status) ==
    /\ pc[p] # "idle"
    /\ pc'[p] = "idle"
    /\ req[p].op = op
    /\ response'.op = op
    /\ response'.status = status

\* C1: when create_tab(k, url) succeeds, the active tab of session k is the
\* tab just created (also when k had an active tab before, which stays in
\* the tab map), and the active tabs of the other sessions are unchanged.
C1_LatestWins ==
    [][\A p \in Tasks, k \in SessionKeys, id \in TabIds :
         /\ Returns(p, "create_tab", 200)
         /\ k = req[p].session_key
         /\ id = response'.body.id
         => /\ id \notin tabs
            /\ tabs' = tabs \cup {id}
            /\ get_active_tab_for_session(k)' = id
            /\ get_active_tab(k)' = [op |-> "get_active_tab", status |-> 200,
                                     body |-> [tab_id |-> id]]
            /\ \A k2 \in SessionKeys \ {k} :
                  get_active_tab_for_session(k2)' = get_active_tab_for_session(k2)
    ]_vars

\* a second tab was just created for a session: both tabs are in the tab map
\* and the session's active tab is the second
C1_Witness ==
    /\ response.op = "create_tab"
    /\ response.status = 200
    /\ response.body.id = 2
    /\ tabs = {1, 2}
    /\ DOMAIN session_tabs = {"s1"}
    /\ get_active_tab_for_session("s1") = 2

\* C2: in every reachable state every session key of the session map maps
\* to a tab identifier that is a key of the tab map.
C2_SessionsResolve ==
    \A k \in DOMAIN session_tabs : session_tabs[k] \in tabs

\* C3: when navigate(t, url) succeeds, tab t's element map is empty, its
\* counter is 0 and its URL is url, whatever they were before.
C3_NavigateResets ==
    [][\A p \in Tasks, t \in TabIds, u \in Urls :
         /\ Returns(p, "navigate", 200)
         /\ req[p].tab_id = t
         /\ req[p].url = u
         => /\ tab'[t].element_map = <<>>
            /\ tab'[t].ref_counter = 0
            /\ tab'[t].url = u
    ]_vars

\* a navigate to u2 has just succeeded on tab 1, which was opened on u1; the
\* tab has no references left while tab 2 keeps the two it was given
C3_Witness ==
    /\ response.op = "navigate"
    /\ response.status = 200
    /\ tabs = {1, 2}
    /\ tab[1] = [TabState(1, tab[1].page, "u2") EXCEPT !.url = "u2"]
    /\ tab[2].url = "u1"
    /\ tab[2].ref_counter = 2

RECURSIVE PreOrder(_)
RECURSIVE PreOrderAll(_)
\* the nodes of a tree, raw or projected, depth first, a node before its
\* children, children in list order, null children left out
PreOrder(node) ==
    << node >> \o (IF "children" \in DOMAIN node THEN PreOrderAll(node.children)
                   ELSE << >>)

PreOrderAll(children) ==
    IF children = << >> THEN << >>
    ELSE (IF Head(children) = Null THEN << >> ELSE PreOrder(Head(children)))
         \o PreOrderAll(Tail(children))

\* a raw node is interactive and named: its name is a non-empty string and
\* its role, in lower case, is in the interactive-role set
InteractiveNamed(node) ==
    /\ "name" \in DOMAIN node
    /\ node.name # ""
    /\ "role" \in DOMAIN node
    /\ lower(node.role) \in interactive_roles

\* the interactive named nodes of a raw snapshot, in pre-order
InteractiveNodes(snapshot) == SelectSeq(PreOrder(snapshot), InteractiveNamed)

HasRef(node) == "elementRef" \in DOMAIN node

\* the references a projected tree carries, in pre-order
Refs(tree) ==
    LET with == SelectSeq(PreOrder(tree), HasRef)
    IN  [i \in 1..Len(with) |-> with[i].elementRef]

\* C4 as claimed: a snapshot of a tree with N interactive named nodes emits
\* exactly e1..eN, in pre-order, each a key of the tab's map afterwards.
C4_RefsFromOne ==
    [][\A p \in Tasks, t \in TabIds, s \in Snapshots :
         snapshot_done(p, s) /\ req[p].tab_id = t
         => LET N == Len(InteractiveNodes(s))
            IN  /\ Refs(response'.tree) = [i \in 1..N |-> RefString(i)]
                /\ \A i \in 1..N : RefString(i) \in DOMAIN tab'[t].element_map
    ]_vars

\* C4 amended: a snapshot of a tree with N interactive named nodes, taken
\* when the tab's counter is c, emits exactly e(c+1)..e(c+N), assigned in
\* pre-order (the i-th interactive named node of the raw tree gets e(c+i)),
\* and each is a key of the tab's map afterwards.
C4_RefsFromCounter ==
    [][\A p \in Tasks, t \in TabIds, s \in Snapshots, c \in 0..MaxRefs :
         snapshot_done(p, s) /\ req[p].tab_id = t /\ tab[t].ref_counter = c
         => LET nodes == InteractiveNodes(s)
                N == Len(nodes)
            IN  /\ Refs(response'.tree) = [i \in 1..N |-> RefString(c + i)]
                /\ \A i \in 1..N :
                      /\ RefString(c + i) \in DOMAIN tab'[t].element_map
                      /\ tab'[t].element_map[RefString(c + i)] = TextSelector(nodes[i].name)
                /\ tab'[t].ref_counter = c + N
    ]_vars

\* the second snapshot of the only tab has just returned: its one
\* interactive named node, the root, got e2, e1 being taken by the first
C4_Witness ==
    /\ response.op = "snapshot"
    /\ response.status = 200
    /\ Refs(response.tree) = << "e2" >>
    /\ response.tree.elementRef = "e2"
    /\ tabs = {1}
    /\ DOMAIN tab[1].element_map = {"e1", "e2"}

\* C5: a tab's counter never decreases except to 0 by a successful navigate
\* of that tab; a snapshot issues references numbered from the counter it
\* finds, none of them a key the tab's map already has; the counter and the
\* map of a tab change only when a snapshot or navigate of that tab returns.
C5_Numbering ==
    [][\A t \in DOMAIN tab \cap DOMAIN tab' :
         LET c == tab[t].ref_counter
             navigated == \E p \in Tasks : Returns(p, "navigate", 200) /\ req[p].tab_id = t
             snapshot == \E p \in Tasks : Returns(p, "snapshot", 200) /\ req[p].tab_id = t
         IN  /\ navigated => tab'[t].ref_counter = 0
             /\ ~navigated => tab'[t].ref_counter >= c
             /\ snapshot =>
                   /\ \A i \in 1..Len(Refs(response'.tree)) :
                         /\ Refs(response'.tree)[i] = RefString(c + i)
                         /\ Refs(response'.tree)[i] \notin DOMAIN tab[t].element_map
                   /\ tab'[t].ref_counter = c + Len(Refs(response'.tree))
             /\ ~navigated /\ ~snapshot =>
                   /\ tab'[t].ref_counter = c
                   /\ tab'[t].element_map = tab[t].element_map
    ]_vars

\* one tab was given e1 by one snapshot and e2 by the next, which has just
\* returned; the other tab, numbered on its own, stands at e1
C5_Witness ==
    /\ response.op = "snapshot"
    /\ response.status = 200
    /\ Refs(response.tree) = << "e2" >>
    /\ tabs = {1, 2}
    /\ \E t, u \in tabs : tab[t].ref_counter = 2 /\ tab[u].ref_counter = 1

\* C6: in the tree get_accessibility_tree returns, the node projected from
\* a raw node carries a reference if and only if the raw node's name is
\* non-empty and its role, in lower case, is in the interactive-role set;
\* a snapshot without such a node emits no reference and leaves the tab's
\* map and counter as they were.
C6_RefIffInteractive ==
    [][\A p \in Tasks, t \in TabIds, s \in Snapshots :
         snapshot_done(p, s) /\ req[p].tab_id = t
         => LET raw == PreOrder(s)
                out == PreOrder(response'.tree)
            IN  /\ Len(out) = Len(raw)
                /\ \A i \in 1..Len(raw) : HasRef(out[i]) <=> InteractiveNamed(raw[i])
                /\ InteractiveNodes(s) = << >> =>
                      /\ Refs(response'.tree) = << >>
                      /\ tab'[t].element_map = tab[t].element_map
                      /\ tab'[t].ref_counter = tab[t].ref_counter
    ]_vars

\* a snapshot of the page without interactive named nodes has just
\* returned for a tab that holds references: six nodes, none with a reference
C6_Witness ==
    /\ response.op = "snapshot"
    /\ response.status = 200
    /\ Len(PreOrder(response.tree)) = 6
    /\ Refs(response.tree) = << >>
    /\ tabs = {1}
    /\ tab[1].ref_counter = 2

\* C7: click and type_text on an existing tab with a reference that is not
\* a key of the tab's element map answer 400 "Unknown element ref"; the
\* handler reaches no await of page.click or page.fill, and nothing of the
\* registry or the engine changes.
C7_UnknownRef ==
    [][\A p \in Tasks, t \in TabIds, r \in ElementRefs :
         /\ t \in tabs
         /\ r \notin DOMAIN tab[t].element_map
         /\ click(p, t, r) \/ \E x \in Texts : type_text(p, t, r, x)
         => /\ UNCHANGED << registry, lock, waiters, pc, req, loc, cleaner, engine >>
            /\ response'.status = 400
            /\ response'.detail.error = "Unknown element ref"
            /\ response'.detail.element_ref = r
    ]_vars

\* a click on e2 has just been refused for a tab whose only reference is e1
C7_Witness ==
    /\ response.op = "click"
    /\ response.status = 400
    /\ response.detail.element_ref = "e2"
    /\ response.detail.available_refs = {"e1"}
    /\ \A p \in Tasks : pc[p] = "idle"

\* a tab operation of task p on tab identifier t is called in this step
TabOperation(p, t) ==
    \/ get_accessibility_tree(p, t)
    \/ screenshot(p, t)
    \/ \E u \in Urls : navigate(p, t, u)
    \/ \E r \in ElementRefs : click(p, t, r)
    \/ \E r \in ElementRefs, x \in Texts : type_text(p, t, r, x)

\* C8: a tab operation called with an identifier that is not a key of the
\* tab map answers 404 "Tab not found", its detail listing exactly the keys
\* of the tab map; the handler reaches no await of a page call and no
\* variable of the registry, the lock, the engine or cleanup changes.
C8_TabNotFound ==
    [][\A p \in Tasks, t \in TabIds :
         t \notin tabs /\ TabOperation(p, t)
         => /\ UNCHANGED << registry, lock, waiters, pc, req, loc, cleaner, engine >>
            /\ response'.status = 404
            /\ response'.detail.error = "Tab not found"
            /\ response'.detail.tab_id = t
            /\ response'.detail.available_tabs = tabs
    ]_vars

\* tab 1 existed and cleanup removed it; an operation on it has just been
\* answered 404 with an empty list although session s1 still remembers it
C8_Witness ==
    /\ response.op \in TabAwaits
    /\ response.status = 404
    /\ response.detail.tab_id = 1
    /\ response.detail.available_tabs = {}
    /\ uuids >= 1
    /\ cpc = "idle"
    /\ get_active_tab_for_session("s1") = 1

\* C9: when cleanup has returned, the tab map is empty, the session map has
\* no entries, no browser handle is held and health reports the browser as
\* not started.
C9_CleanupEmpties ==
    response.op = "cleanup" =>
        /\ tabs = {}
        /\ session_tabs = <<>>
        /\ browser = 0
        /\ camoufox_ctx = 0
        /\ health_check.body.browser = "not_started"

\* C10 (state part): at most one browser runs and it is the one the manager
\* holds; a handler is between _ensure_browser and the end of create_tab only
\* while it holds the lock; a launch is under way only while no handle is
\* held; every tab's page is a page of the browser the manager holds.
SingleBrowser ==
    /\ running \subseteq {browser}
    /\ Cardinality(running) <= 1
    /\ \A p \in Tasks : pc[p] \in {"launch", "new_page", "goto", "close"} => lock = p
    /\ \A p \in Tasks : pc[p] = "launch" => browser = 0
    /\ \A t \in tabs : tab[t].page.browser = browser /\ browser # 0

\* C10 (step part): once a handle is held it is never replaced and no
\* further context is constructed; a context is constructed only by the
\* task that holds the lock afterwards.
NoSecondBrowser ==
    /\ browser # 0 => browser' = browser /\ launched' = launched
    /\ launched' # launched =>
          /\ launched' = launched + 1
          /\ \E p \in Tasks : lock' = p /\ pc'[p] = "launch"

\* C10: under every interleaving of concurrent create_tab calls, without
\* cleanup, the browser is constructed at most once.
C10_BrowserOnce == []SingleBrowser /\ [][NoSecondBrowser]_vars

\* one caller has launched the browser and is opening its page while another
\* caller, who called meanwhile, waits for the lock
C10_Witness ==
    \E p, q \in Tasks :
        /\ pc[p] = "goto"
        /\ pc[q] = "lock"
        /\ browser = 1
        /\ launched = 1
        /\ running = {1}

\* C11: while cleanup is not running, every tab of the tab map has a page
\* of the browser the manager holds, and a held browser handle comes with
\* the context that tears it down (so no create_tab that was in flight
\* while cleanup ran has registered a tab or stored a handle).
C11_NoTabAcrossTeardown ==
    cpc = "idle" =>
        /\ \A t \in tabs : browser # 0 /\ tab[t].page.browser = browser
        /\ browser # 0 => camoufox_ctx = browser

\* C12: once a navigate of a tab has returned successfully no reference
\* derived from a snapshot of the previous document is a key of the tab's
\* element map: the navigate leaves the map empty, and a snapshot that was
\* in flight when the navigate returned, and whose tree is of the document
\* the navigate replaced, adds none of its references to the map.
C12_NoStaleRefs ==
    [][\A p \in Tasks, t \in TabIds :
         /\ Returns(p, "navigate", 200) /\ req[p].tab_id = t
               => tab'[t].element_map = << >>
         /\ \A s \in Snapshots :
               snapshot_done(p, s) /\ req[p].tab_id = t /\ req[p].document = "previous"
               => \A i \in 1..Len(Refs(response'.tree)) :
                     Refs(response'.tree)[i] \notin DOMAIN tab'[t].element_map
    ]_vars

\* C13: when page.goto fails inside create_tab the registry is left as it
\* is, and when the handler then returns, the page is closed, the answer is
\* 500 "Navigation failed" and the tab map, the session map and the browser
\* handle are as before.  The tab map and the session map change in a
\* create_tab only in the step in which it returns 200.
C13_NavigationFailure ==
    [][\A p \in Tasks :
         /\ goto_failed(p) => UNCHANGED registry
         /\ pc[p] = "close" /\ pc'[p] = "idle" =>
               /\ UNCHANGED registry
               /\ loc[p].page \notin page_open'
               /\ response'.op = "create_tab"
               /\ response'.status = 500
               /\ response'.detail.error = "Navigation failed"
         /\ req[p].op = "create_tab" /\ pc[p] # pc'[p] /\ ~Returns(p, "create_tab", 200) =>
               UNCHANGED << tabs, tab, session_tabs >>
         /\ Returns(p, "create_tab", 200) =>
               /\ pc[p] = "goto"
               /\ tabs' = tabs \cup {response'.body.id}
               /\ session_tabs' = (req[p].session_key :> response'.body.id) @@ session_tabs
    ]_vars

\* C14 (state part): when cleanup has returned the tab map is empty and
\* neither a context nor a browser handle is held.
CleanedUp ==
    response.op = "cleanup" =>
        cpc = "idle" /\ tabs = {} /\ camoufox_ctx = 0 /\ browser = 0

\* C14 (step part): every cleanup ends by returning, never raising; a
\* cleanup called right after a cleanup has returned, or on a registry with
\* no tab and no context, returns at once: it awaits no close and no
\* teardown and changes no state.
CleanupAgain ==
    /\ cpc # "idle" /\ cpc' = "idle" => response' = [op |-> "cleanup", status |-> 200]
    /\ cleanup /\ (response.op = "cleanup" \/ (tabs = {} /\ camoufox_ctx = 0)) =>
          /\ cpc' = "idle"
          /\ response' = [op |-> "cleanup", status |-> 200]
          /\ UNCHANGED << registry, lock, waiters, pc, req, loc, to_close, exiting, engine >>

\* C14: cleanup is idempotent and never raises.
C14_CleanupIdempotent == []CleanedUp /\ [][CleanupAgain]_vars

\* cleanup has returned after a tab was open; the close of its page and
\* the teardown of the browser had both failed, and were swallowed
C14_Witness ==
    /\ response.op = "cleanup"
    /\ uuids = 1
    /\ tabs = {}
    /\ running = {1}
    /\ page_open # {}
    /\ cpc = "idle"

\* the set of the references a projected tree carries
RefSet(tree) == {Refs(tree)[i] : i \in 1..Len(Refs(tree))}

\* C15 as claimed: after a snapshot returns, the keys of the tab's element
\* map are exactly the references that snapshot emitted.
C15_MapRebuilt ==
    [][\A p \in Tasks, t \in TabIds, s \in Snapshots :
         snapshot_done(p, s) /\ req[p].tab_id = t
         => DOMAIN tab'[t].element_map = RefSet(response'.tree)
    ]_vars

\* C15 amended: a snapshot adds to the tab's element map; after it returns
\* the keys are the keys the map had before together with the references
\* the snapshot emitted, and every earlier entry keeps its selector.
C15_MapGrows ==
    [][\A p \in Tasks, t \in TabIds, s \in Snapshots :
         snapshot_done(p, s) /\ req[p].tab_id = t
         => /\ DOMAIN tab'[t].element_map =
                  DOMAIN tab[t].element_map \cup RefSet(response'.tree)
            /\ RefSet(response'.tree) \cap DOMAIN tab[t].element_map = {}
            /\ \A r \in DOMAIN tab[t].element_map :
                  tab'[t].element_map[r] = tab[t].element_map[r]
    ]_vars

\* a snapshot that emitted e2 alone has returned, and the entry of e1, from
\* an earlier snapshot of the tab, is still in the map
C15_Witness ==
    /\ response.op = "snapshot"
    /\ response.status = 200
    /\ RefSet(response.tree) = {"e2"}
    /\ tabs = {1}
    /\ "e1" \in DOMAIN tab[1].element_map
    /\ tab[1].element_map["e1"] = TextSelector("A")

\* the elements of a sequence
Range(seq) == {seq[i] : i \in 1..Len(seq)}

\* C16 (one step of cleanup): cleanup queues every tab of the tab map for
\* a close; each close, whether it succeeds or raises, is followed by the
\* close of the next queued tab; the teardown starts only when the queue is
\* empty, on the context held; a browser stops only by a teardown; when
\* the teardown ends, whatever its outcome, the context is dropped, and a
\* context stored later is a new one, so no context is exited twice.
CleanupOrdered ==
    /\ cleanup /\ tabs # {} =>
          /\ cpc' = "closing"
          /\ Range(to_close') = tabs
          /\ Len(to_close') = Cardinality(tabs)
          /\ UNCHANGED engine
    /\ cpc = "closing" /\ to_close' # to_close =>
          /\ to_close # << >>
          /\ to_close' = Tail(to_close)
          /\ page_open \ {tab[Head(to_close)].page} \subseteq page_open'
          /\ running' = running
          /\ Tail(to_close) # << >> => cpc' = "closing"
    /\ cpc # "aexit" /\ cpc' = "aexit" =>
          /\ to_close' = << >>
          /\ exiting' = camoufox_ctx
          /\ exiting' # 0
    /\ ~(running \subseteq running') => cpc = "aexit" /\ running' = running \ {exiting}
    /\ cpc = "aexit" /\ cpc' # "aexit" =>
          /\ cpc' = "idle"
          /\ camoufox_ctx' = 0
          /\ browser' = 0
    /\ camoufox_ctx' \notin {0, camoufox_ctx} => camoufox_ctx' > launched

\* C16: cleanup is best-effort and ordered, and tears a browser down at
\* most once per launch.
C16_CleanupOrdered == [][CleanupOrdered]_vars

\* cleanup has returned after two tabs were open: the close of the first
\* page had raised, the second page was closed all the same, and the
\* teardown, attempted after both, had raised as well
C16_Witness ==
    /\ response.op = "cleanup"
    /\ cpc = "idle"
    /\ uuids = 2
    /\ tabs = {}
    /\ page_open = {[id |-> 1, browser |-> 1]}
    /\ running = {1}
    /\ camoufox_ctx = 0

\* C17: in the tree a snapshot returns, a node that has a children field
\* has at least one child (a node whose raw children are missing, empty or
\* all null has no children field), and no child is null.
C17_ChildrenNonEmpty ==
    response.op = "snapshot" /\ response.status = 200 =>
        \A i \in 1..Len(PreOrder(response.tree)) :
            LET node == PreOrder(response.tree)[i]
            IN  "children" \in DOMAIN node =>
                    /\ node.children # << >>
                    /\ \A j \in 1..Len(node.children) : node.children[j] # Null

\* the nodes of a projected tree that carry a reference, in pre-order
RefNodes(tree) == SelectSeq(PreOrder(tree), HasRef)

\* C18 as claimed: when a snapshot gives references to two nodes of the
\* same name, the later registration overwrites the earlier node's entry:
\* after the snapshot the earlier reference is not a key of the tab's map.
C18_LaterOverwrites ==
    [][\A p \in Tasks, t \in TabIds, s \in Snapshots :
         snapshot_done(p, s) /\ req[p].tab_id = t
         => \A i, j \in 1..Len(RefNodes(response'.tree)) :
               i < j /\ RefNodes(response'.tree)[i].name = RefNodes(response'.tree)[j].name
               => RefNodes(response'.tree)[i].elementRef \notin DOMAIN tab'[t].element_map
    ]_vars

\* C18 amended: when a snapshot gives references to two nodes of the same
\* name, the references differ and each has its own entry in the tab's map
\* after the snapshot; the two entries hold the same exact-text selector.
\* A click or type_text sends the page the selector of the reference given.
C18_SameSelector ==
    [][\A p \in Tasks, t \in TabIds :
         /\ \A s \in Snapshots :
               snapshot_done(p, s) /\ req[p].tab_id = t
               => \A i, j \in 1..Len(RefNodes(response'.tree)) :
                     i < j /\ RefNodes(response'.tree)[i].name = RefNodes(response'.tree)[j].name
                     => /\ RefNodes(response'.tree)[i].elementRef
                              # RefNodes(response'.tree)[j].elementRef
                        /\ RefNodes(response'.tree)[i].elementRef \in DOMAIN tab'[t].element_map
                        /\ RefNodes(response'.tree)[j].elementRef \in DOMAIN tab'[t].element_map
                        /\ tab'[t].element_map[RefNodes(response'.tree)[i].elementRef]
                              = TextSelector(RefNodes(response'.tree)[i].name)
                        /\ tab'[t].element_map[RefNodes(response'.tree)[j].elementRef]
                              = tab'[t].element_map[RefNodes(response'.tree)[i].elementRef]
         /\ pc[p] = "idle" /\ pc'[p] \in {"click", "type_text"} /\ req'[p].tab_id = t
               => loc'[p].selector = tab[t].element_map[req'[p].element_ref]
    ]_vars

\* a snapshot has given e1 and e2 to two nodes named A, and a click with
\* e1, the earlier of the two, has been sent to the page with the selector
\* that e2 has as well
C18_Witness ==
    /\ pc[1] = "click"
    /\ req[1].element_ref = "e1"
    /\ loc[1].selector = TextSelector("A")
    /\ tabs = {1}
    /\ tab[1].url = "u1"
    /\ DOMAIN tab[1].element_map = {"e1", "e2"}
    /\ tab[1].element_map["e2"] = TextSelector("A")

\* C19: when click or type_text is called on a tab of the tab map with a
\* reference that is not a key of the tab's element map, the 400 it answers
\* carries the list of the keys of that map at the time of the call.
C19_UnknownRefListsRefs ==
    [][\A p \in Tasks, t \in TabIds, r \in ElementRefs :
         /\ t \in tabs
         /\ r \notin DOMAIN tab[t].element_map
         /\ click(p, t, r) \/ \E x \in Texts : type_text(p, t, r, x)
         => /\ response'.status = 400
            /\ "available_refs" \in DOMAIN response'.detail
            /\ response'.detail.available_refs = DOMAIN tab[t].element_map
    ]_vars

\* the names of the interactive named nodes pages can have
InteractiveNames ==
    UNION {Range([i \in 1..Len(InteractiveNodes(s)) |-> InteractiveNodes(s)[i].name]) :
              s \in Snapshots}

\* C20 (state part): the keys of every tab's element map are exactly
\* e1..e<ref_counter>, and every value is an exact-text selector of the name
\* of an interactive named node.
KeysAreCounter ==
    \A t \in DOMAIN tab :
        /\ DOMAIN tab[t].element_map = {RefString(i) : i \in 1..tab[t].ref_counter}
        /\ \A r \in DOMAIN tab[t].element_map :
              \E n \in InteractiveNames : tab[t].element_map[r] = TextSelector(n)

\* C20 (step part): a tab's element map changes only when a navigate of the
\* tab returns, which empties it, or when a snapshot of the tab returns,
\* which gives every reference it emitted the exact-text selector of the
\* name of the node that carries the reference and keeps every other entry.
ValuesAreSelectors ==
    \A t \in DOMAIN tab \cap DOMAIN tab' :
        tab'[t].element_map # tab[t].element_map =>
            \/ /\ \E p \in Tasks : pc[p] = "navigate" /\ pc'[p] = "idle" /\ req[p].tab_id = t
               /\ tab'[t].element_map = << >>
               /\ tab'[t].ref_counter = 0
            \/ /\ \E p \in Tasks : pc[p] = "snapshot" /\ pc'[p] = "idle" /\ req[p].tab_id = t
               /\ response'.op = "snapshot"
               /\ response'.status = 200
               /\ \A i \in 1..Len(RefNodes(response'.tree)) :
                     /\ RefNodes(response'.tree)[i].elementRef \in DOMAIN tab'[t].element_map
                     /\ RefNodes(response'.tree)[i].elementRef \notin DOMAIN tab[t].element_map
                     /\ tab'[t].element_map[RefNodes(response'.tree)[i].elementRef]
                           = TextSelector(RefNodes(response'.tree)[i].name)
               /\ \A r \in DOMAIN tab[t].element_map :
                     /\ r \in DOMAIN tab'[t].element_map
                     /\ tab'[t].element_map[r] = tab[t].element_map[r]

\* C20: in every reachable state, under every interleaving of concurrent
\* snapshot and navigate calls on a tab, the key set of the tab's element
\* map is {e1, ..., e<ref_counter>} and every value is the exact-text
\* selector of the name of the node that received the reference.
C20_MapMatchesCounter == []KeysAreCounter /\ [][ValuesAreSelectors]_vars

\* a snapshot of the tab has returned, issuing e1 and e2 on the second
\* page of the tab, while another client's navigate of the same tab is in
\* flight
C20_Witness ==
    /\ response.op = "snapshot"
    /\ response.status = 200
    /\ Len(RefNodes(response.tree)) = 2
    /\ \E p \in Tasks : pc[p] = "navigate" /\ req[p].tab_id = 1
    /\ tab[1].url = "u2"
    /\ tab[1].ref_counter = 2
    /\ tab[1].element_map = ("e1" :> TextSelector("B")) @@ ("e2" :> TextSelector("A"))

\* C21: a navigate of a tab that does not end with success ends with the
\* 500 "Navigation failed"; neither the call nor the failure changes the
\* tab's recorded url, element map or counter, so every reference the map
\* had before the call is still a key with the same selector, for click
\* and type_text to resolve.
C21_NavigateFailure ==
    [][\A p \in Tasks, t \in TabIds :
         /\ t \in tabs /\ (\E u \in Urls : navigate(p, t, u)) =>
               /\ pc'[p] = "navigate"
               /\ tab' = tab
         /\ pc[p] = "navigate" /\ req[p].tab_id = t /\ pc'[p] = "idle"
               /\ ~Returns(p, "navigate", 200) =>
               /\ tab'[t].url = tab[t].url
               /\ tab'[t].ref_counter = tab[t].ref_counter
               /\ tab'[t].element_map = tab[t].element_map
               /\ UNCHANGED << tabs, session_tabs, browser, camoufox_ctx >>
               /\ response'.op = "navigate"
               /\ response'.status = 500
               /\ response'.detail.error = "Navigation failed"
    ]_vars

\* a navigate to u1 of a tab that shows u2 has just failed: the tab still
\* records u2, and the reference issued on that page is still in its map
C21_Witness ==
    /\ response.op = "navigate"
    /\ response.status = 500
    /\ tabs = {1}
    /\ tab[1].url = "u2"
    /\ tab[1].ref_counter = 1
    /\ tab[1].element_map = ("e1" :> TextSelector("A"))

\* the page every tab of the scenario below shows
OnePage == Node("main", "A", << Null >>)

\* Concurrent clients that open tabs; while a create_tab of another client
\* holds the lock, client 1 works on the tabs already open (every page
\* showing OnePage).
LockNext ==
    \/ \E p \in Tasks : create_tab(p, "s1", "u1")
    \/ CreateSteps
    \/ \E t \in tabs : lock # 0 /\ get_accessibility_tree(1, t)
    \/ snapshot_done(1, OnePage)
    \/ snapshot_failed(1)
    \/ \E t \in tabs : lock # 0 /\ screenshot(1, t)
    \/ \E t \in tabs : lock # 0 /\ navigate(1, t, "u1")
    \/ navigate_done(1)
    \/ navigate_failed(1)
    \/ \E t \in tabs, r \in ElementRefs : lock # 0 /\ click(1, t, r)
    \/ \E t \in tabs, r \in ElementRefs, x \in Texts : lock # 0 /\ type_text(1, t, r, x)
    \/ page_action_done(1)
    \/ page_action_failed(1)

\* the event loop resumes a create_tab handler whose await has completed,
\* and every call awaited inside create_tab returns or raises in the end
\* (page.goto within its timeout of 30 s)
Resumed(p) ==
    \/ create_tab_locked(p)
    \/ launch_done(p) \/ launch_failed(p)
    \/ new_page_done(p) \/ new_page_failed(p)
    \/ create_tab_done(p) \/ goto_failed(p)
    \/ close_done(p) \/ close_failed(p)

LockSpec == Init /\ [][LockNext]_vars /\ \A p \in Tasks : WF_vars(Resumed(p))

\* the awaits inside the `async with self._lock` block of create_tab
InLock == {"launch", "new_page", "goto", "close"}

\* C22 (state part): a create_tab handler past the lock holds it, so at
\* most one handler is there; a handler waiting for the lock is queued or
\* has been handed it; no handler that is not in create_tab holds the lock.
OneAtATime ==
    /\ \A p \in Tasks : pc[p] \in InLock => lock = p
    /\ \A p \in Tasks : pc[p] = "lock" =>
          lock = p \/ \E i \in 1..Len(waiters) : waiters[i] = p
    /\ lock # 0 => pc[lock] \in InLock \cup {"lock"}

\* C22 (state part): a client with no request in flight can start any
\* operation on any tab of the tab map, whoever holds the lock.
TabOperationsEnabled ==
    \A p \in Tasks, t \in tabs :
        pc[p] = "idle" =>
            /\ ENABLED get_accessibility_tree(p, t)
            /\ ENABLED screenshot(p, t)
            /\ \A u \in Urls : ENABLED navigate(p, t, u)
            /\ \A r \in ElementRefs : ENABLED click(p, t, r)
            /\ \A r \in ElementRefs, x \in Texts : ENABLED type_text(p, t, r, x)

\* C22 (step part): when create_tab ends, by success or by any of its
\* failures, its handler gives the lock up: to the first waiter if there is
\* one, else the lock is free.  A page is allocated only by the handler
\* that holds the lock.  An operation on a tab never waits for the lock,
\* and it starts and ends without touching the lock.
LockReleased ==
    \A p \in Tasks :
        /\ pc[p] \in InLock /\ pc'[p] = "idle" =>
              /\ lock = p
              /\ lock' # p
              /\ IF waiters = << >>
                 THEN lock' = 0 /\ waiters' = << >>
                 ELSE lock' = Head(waiters) /\ waiters' = Tail(waiters)
              /\ response'.op = "create_tab"
        /\ pc'[p] = "new_page" /\ pc[p] # "new_page" => lock' = p /\ uuids' = uuids + 1
        /\ uuids' # uuids => lock' # 0 /\ pc'[lock'] = "new_page"
        /\ \A t \in tabs : TabOperation(p, t) =>
              /\ pc'[p] \in TabAwaits \cup {"idle"}
              /\ UNCHANGED << lock, waiters >>
        /\ pc[p] \in TabAwaits /\ pc'[p] # pc[p] =>
              /\ pc'[p] = "idle"
              /\ UNCHANGED << lock, waiters >>

\* C22: the lock is released whenever create_tab ends, create_tab calls
\* run one at a time, operations on tabs are never blocked by the lock,
\* and, the engine answering every call of create_tab in the end, every
\* create_tab that waits for the lock is handed it.
C22_LockReleased ==
    /\ []OneAtATime
    /\ []TabOperationsEnabled
    /\ [][LockReleased]_vars
    /\ \A p \in Tasks : (pc[p] = "lock") ~> (lock = p)

\* task 2, which had queued for the lock, has been handed it by a
\* create_tab of task 1 that ended in failure, its navigation and the close
\* of its page having both failed
C22_Witness ==
    /\ pc[2] = "lock"
    /\ lock = 2
    /\ pc[1] = "idle"
    /\ response.op = "create_tab"
    /\ response.status = 500
    /\ response.detail.error = "Failed to create tab"
    /\ page_open # {}

====
